---- MODULE Spec2Model ----
(***************************************************************************)
(* Model of verilog::SymbolTableHandler (verilog/tools/ls/                 *)
(* symbol-table-handler.cc): the handler's lifecycle (setProject,          *)
(* resetSymbolTable, buildProjectSymbolTable, loadProjectFileList) and the *)
(* go-to-definition query (findDefinition, ScanSymbolTreeForDefinition).   *)
(*                                                                         *)
(* Strings that the code converts (paths, URIs) are sequences of           *)
(* one-character strings; symbol names, which the code only compares, are  *)
(* plain strings.  A pointer (unique_ptr, raw pointer, StatusOr) is a      *)
(* sequence of length 0 (null / not ok) or 1 (the pointee).                *)
(***************************************************************************)
EXTENDS Integers, Sequences, FiniteSets, TLC

VARIABLES currproject, symboltable, checkedfiles, files_dirty_,
          disk, nprojects, last

vars == <<currproject, symboltable, checkedfiles, files_dirty_,
          disk, nprojects, last>>

----------------------------------------------------------------------------
(* Bounds *)

\* setProject is called at most this many times in a behaviour
MaxProjects == 2

----------------------------------------------------------------------------
(* Strings, paths and URIs *)

fileschemeprefix == <<"f", "i", "l", "e", ":", "/", "/">>

StartsWith(s, prefix) ==
    /\ Len(s) >= Len(prefix)
    /\ SubSeq(s, 1, Len(prefix)) = prefix

\* a conversion that accepts any scheme: the path is what follows ://
LSPUriToPath_anyScheme(uri) ==
    LET marks == {i \in 1..(Len(uri) - 2) : SubSeq(uri, i, i + 2) = <<":", "/", "/">>}
    IN  IF marks = {} THEN <<>>
        ELSE LET first == CHOOSE i \in marks : \A j \in marks : i <= j
             IN  SubSeq(uri, first + 3, Len(uri))

LSPUriToPath(uri) ==
    IF ~StartsWith(uri, fileschemeprefix) THEN <<>>
    ELSE SubSeq(uri, Len(fileschemeprefix) + 1, Len(uri))

\* the working directory of the server process
current_path == <<"/", "p">>

\* std::filesystem::path operator/ with a relative right-hand side: a
\* separator is put in unless the left-hand side is empty or ends with one
JoinPath(dir, name) ==
    IF dir = <<>> \/ dir[Len(dir)] = "/" THEN dir \o name
    ELSE dir \o <<"/">> \o name

\* std::filesystem::absolute: an absolute path is returned as it is
absolute(p) ==
    IF Len(p) > 0 /\ p[1] = "/" THEN p ELSE JoinPath(current_path, p)

\* a conversion that writes the URI without the empty authority, file:/p/a
PathToLSPUri_withoutAuthority(path) ==
    <<"f", "i", "l", "e", ":">> \o absolute(path)

\* lines 33-36
PathToLSPUri(path) == fileschemeprefix \o absolute(path)

----------------------------------------------------------------------------
(* The file system the server runs on *)

filelistname == "verible.filelist"

DirRoot == <<"/">>
DirP    == <<"/", "p">>
DirS    == <<"/", "p", "/", "s">>
Dirs    == {DirRoot, DirP, DirS}

NameA == <<"a">>
NameB == <<"b">>
NameC == <<"c">>
NameD == <<"d">>

NoText == ""

Token(text, line, start, end) ==
    [text |-> text, line |-> line, start |-> start, end |-> end]

Decl(scope, tok) == [scope |-> scope, tok |-> tok]

\* /p/a:   bar x         module bar with a variable x
\* /p/b:   top bar u x   module top with an instance u of bar and a variable x
\* /p/c:   does not parse
\* /p/d does not exist
DiskFiles ==
    (JoinPath(DirP, NameA) :>
        [parseable |-> TRUE,
         tokens |-> <<Token("bar", 0, 7, 10), Token("x", 1, 2, 3)>>,
         decls  |-> <<Decl(<<>>, 1), Decl(<<"bar">>, 2)>>,
         refs   |-> <<>>])
    @@
    (JoinPath(DirP, NameB) :>
        [parseable |-> TRUE,
         tokens |-> <<Token("top", 0, 7, 10), Token("bar", 1, 2, 5),
                      Token("u", 1, 6, 7), Token("x", 2, 4, 5)>>,
         decls  |-> <<Decl(<<>>, 1), Decl(<<"top">>, 3), Decl(<<"top">>, 4)>>,
         refs   |-> <<2>>])
    @@
    (JoinPath(DirP, NameC) :>
        [parseable |-> FALSE,
         tokens |-> <<>>, decls |-> <<>>, refs |-> <<>>])

exists(path) == path \in DOMAIN DiskFiles

\* the directory that a path names: a relative path is taken from the
\* working directory, a trailing separator does not change the directory
DirOf(path) ==
    IF absolute(path) = DirRoot THEN DirRoot
    ELSE IF absolute(path)[Len(absolute(path))] = "/"
    THEN SubSeq(absolute(path), 1, Len(absolute(path)) - 1)
    ELSE absolute(path)

\* the values of the current_dir argument: the three directories, /p/s
\* written with a trailing separator, and /p/s written relative to /p
StartDirs == Dirs \cup {DirS \o <<"/">>, <<"s">>}

\* std::filesystem::path::parent_path; the root is its own parent
parent_path(dir) ==
    IF dir = DirRoot THEN dir
    ELSE IF \A i \in 1..Len(dir) : dir[i] # "/" THEN <<>>
    ELSE LET cut == CHOOSE i \in 1..Len(dir) :
                        /\ dir[i] = "/"
                        /\ \A j \in (i+1)..Len(dir) : dir[j] # "/"
         IN  IF cut = 1 THEN DirRoot ELSE SubSeq(dir, 1, cut - 1)

\* what a directory holds under the name verible.filelist
NoList == [exists |-> FALSE, ok |-> FALSE,
           include_dirs |-> <<>>, file_paths |-> <<>>]
\* a list with an entry that does not parse after two that do
Malformed == [exists |-> TRUE, ok |-> FALSE,
              include_dirs |-> <<DirS>>, file_paths |-> <<NameA>>]
ListAll == [exists |-> TRUE, ok |-> TRUE,
            include_dirs |-> <<DirP>>,
            file_paths |-> <<NameA, NameD, NameB, NameC>>]
ListBC == [exists |-> TRUE, ok |-> TRUE,
           include_dirs |-> <<DirP>>, file_paths |-> <<NameC, NameB>>]
ListRoot == [exists |-> TRUE, ok |-> TRUE,
             include_dirs |-> <<>>, file_paths |-> <<NameA>>]

Holds(r, p, s) == (DirRoot :> r) @@ (DirP :> p) @@ (DirS :> s)

\* the file lists found on the disks the server is started on
DiskConfigs ==
    { Holds(NoList, NoList, NoList),
      Holds(NoList, Malformed, NoList),
      Holds(NoList, ListAll, NoList),
      Holds(NoList, ListAll, ListBC),
      Holds(NoList, ListAll, Malformed),
      Holds(ListRoot, NoList, NoList) }

----------------------------------------------------------------------------
(* VerilogProject: the file set and search paths of one project *)

Roots == {DirP}
IncludePathLists == {<<>>, <<DirP>>}
Corpora == {<<>>}

VerilogProject(id, root, include_paths, corpus) ==
    [id |-> id, root |-> root, include_paths |-> include_paths,
     corpus |-> corpus, files |-> <<>>]

addIncludePath(project, incdir) ==
    IF \E i \in 1..Len(project.include_paths) : project.include_paths[i] = incdir
    THEN project
    ELSE [project EXCEPT !.include_paths = Append(@, incdir)]

FileIndex(project, name) ==
    IF \E i \in 1..Len(project.files) : project.files[i].name = name
    THEN CHOOSE i \in 1..Len(project.files) : project.files[i].name = name
    ELSE 0

\* a pointer to the registered file record, or null
LookupRegisteredFile(project, name) ==
    IF FileIndex(project, name) = 0 THEN <<>>
    ELSE <<[project |-> project.id, name |-> name]>>

GetRelativePathToSource(project, path) ==
    LET prefix == project.root \o <<"/">>
    IN  IF StartsWith(path, prefix)
        THEN SubSeq(path, Len(prefix) + 1, Len(path))
        ELSE path

\* the registered file is found, or the first include path that holds the
\* name registers it; otherwise the status is not ok
OpenIncludedFile(project, name) ==
    LET hits == {i \in 1..Len(project.include_paths) :
                    exists(JoinPath(project.include_paths[i], name))}
    IN  IF FileIndex(project, name) # 0
        THEN [ok |-> TRUE, project |-> project]
        ELSE IF hits = {}
        THEN [ok |-> FALSE, project |-> project]
        ELSE LET first == CHOOSE i \in hits : \A j \in hits : i <= j
                 rec == [name |-> name,
                         path |-> JoinPath(project.include_paths[first], name),
                         parsed |-> FALSE]
             IN  [ok |-> TRUE,
                  project |-> [project EXCEPT !.files = Append(@, rec)]]

ResolvedPath(project, name) == project.files[FileIndex(project, name)].path

\* the parsed text of a file record, or null before a successful parse
GetTextStructure(project, name) ==
    LET rec == project.files[FileIndex(project, name)]
    IN  IF rec.parsed THEN <<rec.path>> ELSE <<>>

----------------------------------------------------------------------------
(* SymbolTable: a tree of nodes addressed by the keys on the way from the  *)
(* root; a node's Key is a view into the text of the file that declares it *)

RootNode == [key |-> <<>>, file_origin |-> <<>>]

SymbolTable(project) ==
    [project |-> project, tree |-> (<<>> :> RootNode), resolved |-> {}]

KeyView(path, tok) ==
    [text |-> tok.text, buf |-> path,
     line |-> tok.line, start |-> tok.start, end |-> tok.end]

RECURSIVE InsertDecls(_, _, _, _, _)
\* declarations i.. of one parsed file, in source order; a name already
\* present in its scope keeps its first node and yields a diagnostic
InsertDecls(acc, projectid, rec, content, i) ==
    IF i > Len(content.decls) THEN acc
    ELSE LET d    == content.decls[i]
             tok  == content.tokens[d.tok]
             path == Append(d.scope, tok.text)
             node == [key |-> <<KeyView(rec.path, tok)>>,
                      file_origin |-> <<[project |-> projectid,
                                         name |-> rec.name]>>]
         IN  IF path \in DOMAIN acc.tree \/ d.scope \notin DOMAIN acc.tree
             THEN InsertDecls([acc EXCEPT !.diagnostics = @ + 1],
                              projectid, rec, content, i + 1)
             ELSE InsertDecls([acc EXCEPT !.tree = @ @@ (path :> node)],
                              projectid, rec, content, i + 1)

\* the file record idx is parsed; a file that parses gets its declarations
\* inserted, one that does not is the diagnostic
ParseAndInsert(table, project, idx) ==
    IF ~DiskFiles[project.files[idx].path].parseable
    THEN [tree |-> table.tree, parsed |-> FALSE, diagnostics |-> 1]
    ELSE InsertDecls([tree |-> table.tree, parsed |-> TRUE, diagnostics |-> 0],
                     project.id, project.files[idx],
                     DiskFiles[project.files[idx].path], 1)

Inserted(table, project, idx, done) ==
    [table |-> [table EXCEPT !.tree = done.tree],
     project |-> [project EXCEPT !.files[idx].parsed = done.parsed],
     diagnostics |-> done.diagnostics]

BuildFileAt(table, project, idx) ==
    Inserted(table, project, idx, ParseAndInsert(table, project, idx))

\* parses the file and inserts its declarations into the tree
BuildSymbolTable(name, table, project) ==
    BuildFileAt(table, project, FileIndex(project, name))

AddDiagnostics(count, one) == [one EXCEPT !.diagnostics = @ + count]

RECURSIVE BuildFrom(_, _)
\* sofar: the table, the project and the number of diagnostics after the
\* files before the i-th
BuildFrom(sofar, i) ==
    IF i > Len(sofar.project.files) THEN sofar
    ELSE BuildFrom(AddDiagnostics(sofar.diagnostics,
                       BuildFileAt(sofar.table, sofar.project, i)),
                   i + 1)

\* SymbolTable::Build: every registered file of the project, in order
Build(table, project) ==
    BuildFrom([table |-> table, project |-> project, diagnostics |-> 0], 1)

\* the references (uses of a name) in the parsed registered files
References(project) ==
    UNION { { [name |-> project.files[i].name,
               tok  |-> DiskFiles[project.files[i].path].refs[k]] :
                k \in 1..Len(DiskFiles[project.files[i].path].refs) } :
            i \in {j \in 1..Len(project.files) : project.files[j].parsed} }

RefText(project, r) ==
    DiskFiles[ResolvedPath(project, r.name)].tokens[r.tok].text

\* SymbolTable::Resolve: links every reference to the globally visible
\* declaration of its name; a reference without one yields a diagnostic
Resolve(table, project) ==
    LET refs  == References(project)
        found == {r \in refs : <<RefText(project, r)>> \in DOMAIN table.tree}
    IN  [table |-> [table EXCEPT !.resolved =
                       { [name |-> r.name, tok |-> r.tok,
                          target |-> <<RefText(project, r)>>] : r \in found }],
         diagnostics |-> Cardinality(refs \ found)]

----------------------------------------------------------------------------
(* The order in which a node's children are visited: Children() is a map   *)
(* ordered by key                                                          *)

SymbolOrder == <<"bar", "top", "u", "x">>

Rank(key) == CHOOSE i \in 1..Len(SymbolOrder) : SymbolOrder[i] = key

RECURSIVE SortKeys(_)
SortKeys(keys) ==
    IF keys = {} THEN <<>>
    ELSE LET least == CHOOSE k \in keys : \A o \in keys : Rank(k) <= Rank(o)
         IN  <<least>> \o SortKeys(keys \ {least})

\* the children of the node at path, as paths, in iteration order
Children(tree, path) ==
    LET keys == {q[Len(q)] : q \in {c \in DOMAIN tree :
                                      /\ Len(c) = Len(path) + 1
                                      /\ SubSeq(c, 1, Len(path)) = path}}
        order == SortKeys(keys)
    IN  [i \in 1..Len(order) |-> Append(path, order[i])]

Key(tree, path) == tree[path].key

RECURSIVE ScanSymbolTreeForDefinition(_, _, _)
RECURSIVE ScanChildren(_, _, _, _)

\* a loop that returns what the first child's subtree gives, found or not
ScanChildren_firstChildOnly(tree, children, i, symbol) ==
    IF i > Len(children) THEN <<>>
    ELSE ScanSymbolTreeForDefinition(tree, <<children[i]>>, symbol)

\* the loop over context->Children(): the first child whose subtree matches
ScanChildren(tree, children, i, symbol) ==
    IF i > Len(children) THEN <<>>
    ELSE LET res == ScanSymbolTreeForDefinition(tree, <<children[i]>>, symbol)
         IN  IF res # <<>> THEN res
             ELSE ScanChildren(tree, children, i + 1, symbol)

\* context is a pointer to a node of tree (or null); so is the result
ScanSymbolTreeForDefinition(tree, context, symbol) ==
    IF context = <<>> THEN <<>>
    ELSE IF Key(tree, context[1]) # <<>>
            /\ Key(tree, context[1])[1].text = symbol
    THEN context
    ELSE ScanChildren(tree, Children(tree, context[1]), 1, symbol)

----------------------------------------------------------------------------
(* SymbolTableHandler: the fields of the handler as one record h           *)

Handler == [currproject |-> currproject, symboltable |-> symboltable,
            checkedfiles |-> checkedfiles, files_dirty_ |-> files_dirty_]

\* currproject.get(): the project's identity, or null
ProjectPtr(h) ==
    IF h.currproject = <<>> THEN <<>> ELSE <<h.currproject[1].id>>

\* a reset that empties the set of processed files and keeps the table
resetSymbolTable_keepsTable(h) ==
    IF h.symboltable = <<>>
    THEN [h EXCEPT !.checkedfiles = {},
                   !.symboltable = <<SymbolTable(ProjectPtr(h))>>]
    ELSE [h EXCEPT !.checkedfiles = {},
                   !.symboltable = <<[h.symboltable[1] EXCEPT
                                         !.project = ProjectPtr(h)]>>]

\* lines 45-48
resetSymbolTable(h) ==
    [h EXCEPT !.checkedfiles = {},
              !.symboltable = <<SymbolTable(ProjectPtr(h))>>]

\* a setProject that replaces the project and keeps the table it has
setProject_keepsTable(h, id, root, include_paths, corpus) ==
    IF h.symboltable = <<>>
    THEN resetSymbolTable(
             [h EXCEPT !.currproject =
                          <<VerilogProject(id, root, include_paths, corpus)>>])
    ELSE [h EXCEPT !.currproject =
                      <<VerilogProject(id, root, include_paths, corpus)>>,
                   !.checkedfiles = {}]

\* lines 38-43
setProject(h, id, root, include_paths, corpus) ==
    resetSymbolTable(
        [h EXCEPT !.currproject =
                     <<VerilogProject(id, root, include_paths, corpus)>>])

\* the diagnostics that BuildSymbolTable returns are dropped
Discard(h, result) ==
    [h EXCEPT !.symboltable = <<result.table>>,
              !.currproject = <<result.project>>]

buildSymbolTableFor(h, name) ==
    Discard(h, BuildSymbolTable(name, h.symboltable[1], h.currproject[1]))

\* lines 65-70: Resolve on the table that Build left, and the flag cleared
ResolveAndClear(r, b, rs) ==
    [h |-> [r EXCEPT !.currproject = <<b.project>>,
                     !.symboltable = <<rs.table>>,
                     !.files_dirty_ = FALSE],
     steps |-> <<"reset", "Build", "Resolve">>,
     logged |-> <<b.diagnostics, rs.diagnostics>>]

\* a build that gives up when Build reports a diagnostic
BuildAndResolve_stopsOnDiagnostic(r, b) ==
    IF b.diagnostics > 0
    THEN [h |-> [r EXCEPT !.currproject = <<b.project>>,
                          !.symboltable = <<b.table>>],
          steps |-> <<"reset", "Build">>,
          logged |-> <<b.diagnostics>>]
    ELSE ResolveAndClear(r, b, Resolve(b.table, b.project))

\* lines 59-70, r being the handler after the reset and b what Build gave
BuildAndResolve(r, b) == ResolveAndClear(r, b, Resolve(b.table, b.project))

\* lines 56-70, r being the handler after the reset
BuildAfterReset(r) ==
    IF r.currproject = <<>>
    THEN [h |-> r, steps |-> <<"reset">>, logged |-> <<>>]
    ELSE BuildAndResolve(r, Build(r.symboltable[1], r.currproject[1]))

\* h after the call, the steps it took, and the diagnostics it logged
buildProjectSymbolTable(h) == BuildAfterReset(resetSymbolTable(h))

RECURSIVE SearchUp(_, _, _)
\* the while loop of loadProjectFileList: the directories checked, and the
\* directory whose file list was found (or null at the root)
SearchUp(files, currentdirpath, checked) ==
    IF files[DirOf(currentdirpath)].exists
    THEN [found |-> <<currentdirpath>>, checked |-> Append(checked, currentdirpath)]
    ELSE IF parent_path(currentdirpath) = currentdirpath
    THEN [found |-> <<>>, checked |-> Append(checked, currentdirpath)]
    ELSE SearchUp(files, parent_path(currentdirpath),
                  Append(checked, currentdirpath))

RECURSIVE AddIncludePaths(_, _, _)
AddIncludePaths(project, include_dirs, i) ==
    IF i > Len(include_dirs) THEN project
    ELSE AddIncludePaths(addIncludePath(project, include_dirs[i]),
                         include_dirs, i + 1)

\* lines 108-114: a file that does not open is skipped, one that opens is built
AddFile(h, incfile, incsource) ==
    IF ~incsource.ok THEN h
    ELSE buildSymbolTableFor([h EXCEPT !.currproject = <<incsource.project>>],
                             incfile)

RECURSIVE AddFiles(_, _, _)
\* a loop that ends at the first file that does not open
AddFiles_stopsAtMissing(h, file_paths, i) ==
    IF i > Len(file_paths) THEN h
    ELSE IF ~OpenIncludedFile(h.currproject[1], file_paths[i]).ok THEN h
    ELSE AddFiles(AddFile(h, file_paths[i],
                          OpenIncludedFile(h.currproject[1], file_paths[i])),
                  file_paths, i + 1)
\* the loop over filelist.file_paths
AddFiles(h, file_paths, i) ==
    IF i > Len(file_paths) THEN h
    ELSE AddFiles(AddFile(h, file_paths[i],
                          OpenIncludedFile(h.currproject[1], file_paths[i])),
                  file_paths, i + 1)

\* a load that goes on with what was read of a list that failed to parse
LoadFound_ignoresStatus(h, filelist, checked) ==
    [h |-> AddFiles([h EXCEPT !.currproject =
                        <<AddIncludePaths(h.currproject[1],
                                          filelist.include_dirs, 1)>>],
                    filelist.file_paths, 1),
     steps |-> <<"loaded">>,
     checked |-> checked]
\* lines 92-115, walk being the outcome of the search
LoadFound(h, filelist, checked) ==
    IF ~filelist.ok
    THEN [h |-> h, steps |-> <<"failed to parse">>, checked |-> checked]
    ELSE [h |-> AddFiles([h EXCEPT !.currproject =
                             <<AddIncludePaths(h.currproject[1],
                                               filelist.include_dirs, 1)>>],
                         filelist.file_paths, 1),
          steps |-> <<"loaded">>,
          checked |-> checked]

\* a search that starts the table afresh when it finds no file list
AfterSearch_resetsOnMiss(h, files, walk) ==
    IF walk.found = <<>>
    THEN [h |-> resetSymbolTable(h), steps |-> <<"not found">>,
          checked |-> walk.checked]
    ELSE LoadFound(h, files[DirOf(walk.found[1])], walk.checked)

\* lines 92-94: nothing was found, or the list that was found is loaded
AfterSearch(h, files, walk) ==
    IF walk.found = <<>>
    THEN [h |-> h, steps |-> <<"not found">>, checked |-> walk.checked]
    ELSE LoadFound(h, files[DirOf(walk.found[1])], walk.checked)

loadProjectFileList(h, files, current_dir) ==
    IF h.currproject = <<>> THEN [h |-> h, steps |-> <<>>, checked |-> <<>>]
    ELSE AfterSearch(h, files, SearchUp(files, current_dir, <<>>))


----------------------------------------------------------------------------
(* findDefinition *)

EOFToken == Token(NoText, 0, 0, 0)

\* parsedbuffer->parser().Data(): the tokens of the open document; the editor
\* holds the text that is on the disk, and an empty text for any other name
BufferText(filepath) ==
    IF filepath \in DOMAIN DiskFiles THEN DiskFiles[filepath].tokens ELSE <<>>

\* TextStructureView::FindTokenAt: the token covering the position, or the
\* end-of-file token, whose text is empty
FindTokenAt(text, cursor) ==
    LET tokens == text
        hits == {i \in 1..Len(tokens) :
                    /\ tokens[i].line = cursor.line
                    /\ tokens[i].start <= cursor.character
                    /\ cursor.character < tokens[i].end}
    IN  IF hits = {} THEN EOFToken ELSE tokens[CHOOSE i \in hits : TRUE]

\* TextStructureView::GetRangeForText of a view into that text
GetRangeForText(textstructure, view) ==
    [start |-> [line |-> view.line, column |-> view.start],
     end   |-> [line |-> view.line, column |-> view.end]]

\* a location with line and column exchanged
Location_swapped(uri, symbollocation) ==
    [uri |-> uri,
     range |-> [start |-> [line |-> symbollocation.start.column,
                           character |-> symbollocation.start.line],
                end   |-> [line |-> symbollocation.end.column,
                           character |-> symbollocation.end.line]]]

Location(uri, symbollocation) ==
    [uri |-> uri,
     range |-> [start |-> [line |-> symbollocation.start.line,
                           character |-> symbollocation.start.column],
                end   |-> [line |-> symbollocation.end.line,
                           character |-> symbollocation.end.column]]]

Answer(h, steps, outcome, result, symbol, node) ==
    [h |-> h, steps |-> steps, outcome |-> outcome, result |-> result,
     symbol |-> symbol, node |-> node]

\* lines 182-194: the location of the node's key in its origin file
LocationOf(h, steps, symbol, node, origin) ==
    IF GetTextStructure(h.currproject[1], origin) = <<>>
    THEN Answer(h, steps, "returned", <<>>, <<symbol>>, node)
    ELSE Answer(h, steps, "returned",
             <<Location(PathToLSPUri(ResolvedPath(h.currproject[1], origin)),
                        GetRangeForText(
                            GetTextStructure(h.currproject[1], origin)[1],
                            Key(h.symboltable[1].tree, node[1])[1]))>>,
             <<symbol>>, node)

\* lines 171-194: the translation of the node that the search gave
Translated(h, steps, symbol, ub, node, symbolinfo) ==
    IF node = <<>>
    THEN Answer(h, steps, "returned", <<>>, <<symbol>>, node)
    ELSE IF symbolinfo[1].file_origin = <<>>
    THEN Answer(h, steps, "returned", <<>>, <<symbol>>, node)
    ELSE IF \/ symbolinfo[1].file_origin[1].project # h.currproject[1].id
            \/ FileIndex(h.currproject[1], symbolinfo[1].file_origin[1].name) = 0
    THEN \* file_origin points into a project that is gone
         Answer(h, steps, IF ub THEN "fault" ELSE "stale", <<>>, <<symbol>>, node)
    ELSE LocationOf(h, steps, symbol, node, symbolinfo[1].file_origin[1].name)

\* node->Value(), of a node that is not null
Value(tree, node) == IF node = <<>> THEN <<>> ELSE <<tree[node[1]]>>

Searched(h, steps, symbol, ub, node) ==
    Translated(h, Append(steps, "scan"), symbol, ub, node,
               Value(h.symboltable[1].tree, node))

\* lines 168-194: the search of the tree from its root and the translation
Translate(h, steps, symbol, ub) ==
    Searched(h, steps, symbol, ub,
             ScanSymbolTreeForDefinition(h.symboltable[1].tree, <<(<<>>)>>, symbol))

\* lines 162-170: the file of the document has to be registered
Registered(h, steps, symbol, reffile, ub) ==
    IF reffile = <<>>
    THEN Answer(h, steps, "returned", <<>>, <<symbol>>, <<>>)
    ELSE Translate(h, steps, symbol, ub)

\* lines 147-166, for a path that is not empty.
\* tracker: "none" (FindBufferTrackerOrNull returns null), "nocurrent" (the
\* tracker has no parsed buffer) or "open".  ub: whether a use of a null
\* pointer faults (TRUE) or reads as an empty object (FALSE).
Lookup(h, steps, filepath, cursor, tracker, ub) ==
    IF h.currproject = <<>> /\ ub
    THEN Answer(h, steps, "fault", <<>>, <<>>, <<>>)
    ELSE IF tracker = "none" /\ ub
    THEN Answer(h, steps, "fault", <<>>, <<>>, <<>>)
    ELSE IF tracker # "open"
    THEN Answer(h, steps, "returned", <<>>, <<>>, <<>>)
    ELSE Registered(h, steps,
             FindTokenAt(BufferText(filepath), cursor).text,
             IF h.currproject = <<>> THEN <<>>
             ELSE LookupRegisteredFile(h.currproject[1],
                      GetRelativePathToSource(h.currproject[1], filepath)),
             ub)

\* lines 141-195, built being the outcome of the rebuild, if there was one
AfterBuild(built, uri, cursor, tracker, ub) ==
    IF LSPUriToPath(uri) = <<>>
    THEN Answer(built.h, built.steps, "returned", <<>>, <<>>, <<>>)
    ELSE Lookup(built.h, built.steps, LSPUriToPath(uri), cursor, tracker, ub)

\* a query that rebuilds the table whatever the flag says
findDefinition_alwaysBuilds(h, uri, cursor, tracker, ub) ==
    AfterBuild(buildProjectSymbolTable(h), uri, cursor, tracker, ub)

\* lines 135-140: the rebuild when the flag is set, then the lookup
findDefinition(h, uri, cursor, tracker, ub) ==
    AfterBuild(IF h.files_dirty_ THEN buildProjectSymbolTable(h)
               ELSE [h |-> h, steps |-> <<>>, logged |-> <<>>],
               uri, cursor, tracker, ub)

----------------------------------------------------------------------------
(* The requests of the editor *)

\* a document of another scheme, un:///p/a
UntitledUri == <<"u", "n", ":", "/", "/">> \o JoinPath(DirP, NameA)

RequestUris ==
    { PathToLSPUri(JoinPath(DirP, NameA)), PathToLSPUri(JoinPath(DirP, NameB)),
      PathToLSPUri(JoinPath(DirP, NameC)), UntitledUri }

Cursors ==
    { [line |-> 0, character |-> 0], [line |-> 1, character |-> 2],
      [line |-> 2, character |-> 4] }

\* the states of the buffer tracker that the open documents can hold for uri:
\* a parsed buffer exists only for a document whose text parses
Trackers(uri) ==
    LET filepath == LSPUriToPath(uri)
    IN  IF filepath \in DOMAIN DiskFiles /\ ~DiskFiles[filepath].parseable
        THEN {"none", "nocurrent"}
        ELSE {"none", "nocurrent", "open"}

----------------------------------------------------------------------------
(* The state machine *)

\* what the last operation did: its name, the steps of the rebuild and of the
\* search it went through, how it ended and what it returned
Observed(op, steps, outcome, result, request, symbol, node, logged, checked) ==
    [op |-> op, steps |-> steps, outcome |-> outcome, result |-> result,
     request |-> request, symbol |-> symbol, node |-> node,
     logged |-> logged, checked |-> checked]

Quiet(op, steps, logged, checked) ==
    Observed(op, steps, "returned", <<>>, <<>>, <<>>, <<>>, logged, checked)

\* the default member initializer of files_dirty_
InitiallyDirty == TRUE

Init ==
    /\ currproject = <<>>
    /\ symboltable = <<>>
    /\ checkedfiles = {}
    /\ files_dirty_ = InitiallyDirty
    /\ disk \in DiskConfigs
    /\ nprojects = 0
    /\ last = Quiet("constructor", <<>>, <<>>, <<>>)

Running == last.outcome # "fault"

Becomes(h) ==
    /\ currproject' = h.currproject
    /\ symboltable' = h.symboltable
    /\ checkedfiles' = h.checkedfiles
    /\ files_dirty_' = h.files_dirty_

Rebuilt(done) ==
    /\ Becomes(done.h)
    /\ last' = Quiet("buildProjectSymbolTable", done.steps, done.logged, <<>>)

Loaded(done, current_dir) ==
    /\ Becomes(done.h)
    /\ last' = Observed("loadProjectFileList", done.steps, "returned", <<>>,
                        <<[current_dir |-> current_dir]>>, <<>>, <<>>, <<>>,
                        done.checked)

Answered(done, request) ==
    /\ Becomes(done.h)
    /\ last' = Observed("findDefinition", done.steps, done.outcome, done.result,
                        <<request>>, done.symbol, done.node, <<>>, <<>>)

SetProject ==
    /\ Running
    /\ nprojects < MaxProjects
    /\ \E root \in Roots, include_paths \in IncludePathLists, corpus \in Corpora :
          Becomes(setProject(Handler, nprojects + 1, root, include_paths, corpus))
    /\ nprojects' = nprojects + 1
    /\ last' = Quiet("setProject", <<"reset">>, <<>>, <<>>)
    /\ UNCHANGED disk

ResetSymbolTable ==
    /\ Running
    /\ Becomes(resetSymbolTable(Handler))
    /\ last' = Quiet("resetSymbolTable", <<"reset">>, <<>>, <<>>)
    /\ UNCHANGED <<disk, nprojects>>

\* buildSymbolTableFor takes a VerilogSourceFile by reference: the callers
\* pass a file registered with the handler's project
BuildSymbolTableFor ==
    /\ Running
    /\ currproject # <<>>
    /\ \E i \in 1..Len(currproject[1].files) :
          /\ Becomes(buildSymbolTableFor(Handler, currproject[1].files[i].name))
          /\ last' = Observed("buildSymbolTableFor", <<"build file">>,
                              "returned", <<>>,
                              <<[file |-> currproject[1].files[i].name]>>,
                              <<>>, <<>>, <<>>, <<>>)
    /\ UNCHANGED <<disk, nprojects>>

BuildProjectSymbolTable ==
    /\ Running
    /\ Rebuilt(buildProjectSymbolTable(Handler))
    /\ UNCHANGED <<disk, nprojects>>

LoadProjectFileList ==
    /\ Running
    /\ \E current_dir \in StartDirs :
          Loaded(loadProjectFileList(Handler, disk, current_dir), current_dir)
    /\ UNCHANGED <<disk, nprojects>>

FindDefinition ==
    /\ Running
    /\ \E uri \in RequestUris, cursor \in Cursors, ub \in BOOLEAN :
          \E tracker \in Trackers(uri) :
             Answered(findDefinition(Handler, uri, cursor, tracker, ub),
                      [uri |-> uri, cursor |-> cursor, tracker |-> tracker])
    /\ UNCHANGED <<disk, nprojects>>

Next ==
    \/ SetProject
    \/ ResetSymbolTable
    \/ BuildSymbolTableFor
    \/ BuildProjectSymbolTable
    \/ LoadProjectFileList
    \/ FindDefinition

Spec == Init /\ [][Next]_vars

----------------------------------------------------------------------------
(* ScanSymbolTreeForDefinition on its own: every tree of bounded depth     *)
(* over two keys, every context in it (or null), every symbol              *)

MaxDepth == 2

ScanKeys == {"bar", "x"}
ScanSymbols == ScanKeys \cup {"top", NoText}

ScanPaths == UNION { [1..n -> ScanKeys] : n \in 1..MaxDepth }

PrefixClosed(paths) ==
    \A p \in paths : Len(p) > 1 => SubSeq(p, 1, Len(p) - 1) \in paths

ScanNode(p) ==
    IF p = <<>> THEN RootNode
    ELSE [key |-> <<[text |-> p[Len(p)], buf |-> <<>>,
                     line |-> 0, start |-> 0, end |-> 0]>>,
          file_origin |-> <<>>]

ScanTrees ==
    { [p \in paths \cup {<<>>} |-> ScanNode(p)] :
        paths \in {ps \in SUBSET ScanPaths : PrefixClosed(ps)} }

ScanInit ==
    /\ currproject = <<>>
    /\ symboltable \in { <<[SymbolTable(<<>>) EXCEPT !.tree = t]>> : t \in ScanTrees }
    /\ checkedfiles = {}
    /\ files_dirty_ = InitiallyDirty
    /\ disk = Holds(NoList, NoList, NoList)
    /\ nprojects = 0
    /\ last = Quiet("constructor", <<>>, <<>>, <<>>)

Scan ==
    \E context \in {<<>>} \cup { <<p>> : p \in DOMAIN symboltable[1].tree },
       symbol \in ScanSymbols :
       /\ last' = Observed("ScanSymbolTreeForDefinition", <<"scan">>, "returned",
                           <<>>, <<[context |-> context]>>, <<symbol>>,
                           ScanSymbolTreeForDefinition(symboltable[1].tree,
                                                       context, symbol),
                           <<>>, <<>>)
       /\ UNCHANGED <<currproject, symboltable, checkedfiles, files_dirty_,
                      disk, nprojects>>

ScanNext == Scan

SpecScan == ScanInit /\ [][ScanNext]_vars

----------------------------------------------------------------------------
(* LSPUriToPath and PathToLSPUri on their own: every text of bounded       *)
(* length over a separator, a letter and a dot, as a path and after a      *)
(* scheme prefix                                                           *)

MaxPathLen == 4

PathChars == {"/", "a", "."}

PathTexts == UNION { [1..n -> PathChars] : n \in 1..MaxPathLen }

\* the file scheme, shortened, misspelt and preceded, and another scheme
UriPrefixes ==
    { fileschemeprefix,
      <<"f", "i", "l", "e", ":", "/">>,
      <<"f", "i", "l", "e", ":">>,
      <<"F", "i", "l", "e", ":", "/", "/">>,
      <<"x", "f", "i", "l", "e", ":", "/", "/">>,
      <<"u", "n", ":", "/", "/">>,
      <<>> }

UriTexts ==
    { prefix \o path : prefix \in UriPrefixes,
                       path \in {t \in PathTexts : Len(t) <= 2} }

Given(text) ==
    Observed("text", <<>>, "returned", <<>>, <<[text |-> text]>>,
             <<>>, <<>>, <<>>, <<>>)

UriInit ==
    /\ currproject = <<>>
    /\ symboltable = <<>>
    /\ checkedfiles = {}
    /\ files_dirty_ = InitiallyDirty
    /\ disk = Holds(NoList, NoList, NoList)
    /\ nprojects = 0
    /\ last \in { Given(text) : text \in PathTexts \cup UriTexts }

\* the text taken as a path: to a URI and back
ToUriAndBack ==
    /\ last' = Observed("PathToLSPUri", <<>>, "returned",
                        <<[uri |-> PathToLSPUri(last.request[1].text),
                           path |-> LSPUriToPath(
                                       PathToLSPUri(last.request[1].text))]>>,
                        last.request, <<>>, <<>>, <<>>, <<>>)
    /\ UNCHANGED <<currproject, symboltable, checkedfiles, files_dirty_,
                   disk, nprojects>>

\* the text taken as a URI
ToPath ==
    /\ last' = Observed("LSPUriToPath", <<>>, "returned",
                        <<[path |-> LSPUriToPath(last.request[1].text)]>>,
                        last.request, <<>>, <<>>, <<>>, <<>>)
    /\ UNCHANGED <<currproject, symboltable, checkedfiles, files_dirty_,
                   disk, nprojects>>

UriNext ==
    \/ ToUriAndBack
    \/ ToPath

SpecUri == UriInit /\ [][UriNext]_vars

----------------------------------------------------------------------------
(* Properties *)

Has(steps, step) == \E i \in 1..Len(steps) : steps[i] = step

\* the number of full passes (Build followed by Resolve) among the steps
Passes(steps) ==
    Cardinality({i \in 1..(Len(steps) - 1) :
                    steps[i] = "Build" /\ steps[i + 1] = "Resolve"})

EmptyTree(table) == DOMAIN table.tree = {<<>>}

\* C1: the findDefinition that follows a setProject performs exactly one full
\* Build+Resolve pass before it answers, also when the handler was clean at
\* the time of the setProject; a findDefinition that follows a findDefinition
\* performs none.
C1_OnePassAfterSetProject ==
    [][ /\ (last.op = "setProject" /\ last'.op = "findDefinition")
            => Passes(last'.steps) = 1
        /\ (last.op = "findDefinition" /\ last'.op = "findDefinition")
            => Passes(last'.steps) = 0 ]_vars

\* C2: setProject leaves the handler Configured/Dirty (project replaced, tree
\* empty, dirty flag set) from any state, and the dirty flag is cleared only
\* by an operation that went through a full Build+Resolve pass.
C2_StateMachine ==
    [][ /\ last'.op = "setProject"
            => /\ currproject' # <<>>
               /\ currproject'[1].id = nprojects'
               /\ currproject'[1].files = <<>>
               /\ EmptyTree(symboltable'[1])
               /\ files_dirty_'
        /\ (files_dirty_ /\ ~files_dirty_') => Passes(last'.steps) = 1 ]_vars

\* C3 as stated: buildProjectSymbolTable, in any handler state, goes through
\* reset, Build, Resolve in this order and leaves the dirty flag cleared.
C3_BuildInAnyState ==
    last.op = "buildProjectSymbolTable"
        => /\ last.steps = <<"reset", "Build", "Resolve">>
           /\ ~files_dirty_

\* every reference whose name is declared at file scope is linked by Resolve,
\* the others are its diagnostics
ResolvedAgainst(table, project) ==
    /\ \A r \in References(project) :
          (<<RefText(project, r)>> \in DOMAIN table.tree)
              <=> (\E l \in table.resolved : l.name = r.name /\ l.tok = r.tok)
    /\ \A l \in table.resolved : l.target \in DOMAIN table.tree

\* C3 (amended): with a project configured, buildProjectSymbolTable goes
\* through reset, Build, Resolve in this order, Resolve working on the tree
\* that Build left, and the dirty flag is cleared whatever the number of
\* diagnostics of Build and of Resolve; with no project it only resets and
\* the flag stays set.
C3_BuildOrder ==
    last.op = "buildProjectSymbolTable"
        => IF currproject # <<>>
           THEN /\ last.steps = <<"reset", "Build", "Resolve">>
                /\ Len(last.logged) = 2
                /\ ResolvedAgainst(symboltable[1], currproject[1])
                /\ ~files_dirty_
           ELSE /\ last.steps = <<"reset">>
                /\ EmptyTree(symboltable[1])
                /\ files_dirty_

\* a build that logged a diagnostic of Build and one of Resolve
C3_Witness ==
    /\ last.op = "buildProjectSymbolTable"
    /\ currproject # <<>>
    /\ Len(last.logged) = 2
    /\ last.logged[1] > 0
    /\ last.logged[2] > 0
    /\ ~files_dirty_

UriA == PathToLSPUri(JoinPath(DirP, NameA))
UriB == PathToLSPUri(JoinPath(DirP, NameB))

Query == last.op = "findDefinition"
Request == last.request[1]

\* the range of a token, as the protocol writes it
RangeOf(tok) ==
    [start |-> [line |-> tok.line, character |-> tok.start],
     end   |-> [line |-> tok.line, character |-> tok.end]]

\* C4: the location that findDefinition returns names the file that declares
\* the node it found (the origin file's resolved path as a file:// URI, not
\* the requesting document), and its range is that of the declared name in
\* that file.
C4_LocationInDeclaringFile ==
    (Query /\ last.result # <<>>)
        => LET loc    == last.result[1]
               origin == LSPUriToPath(loc.uri)
               info   == symboltable[1].tree[last.node[1]]
           IN  /\ StartsWith(loc.uri, fileschemeprefix)
               /\ info.file_origin # <<>>
               /\ origin = ResolvedPath(currproject[1], info.file_origin[1].name)
               /\ origin \in DOMAIN DiskFiles
               /\ \E i \in 1..Len(DiskFiles[origin].decls) :
                     LET tok == DiskFiles[origin].tokens[DiskFiles[origin].decls[i].tok]
                     IN  /\ tok.text = last.symbol[1]
                         /\ loc.range = RangeOf(tok)

\* the use of bar in /p/b is answered with the declaration of bar in /p/a
C4_Witness ==
    /\ Query
    /\ Request.uri = UriB
    /\ last.symbol = <<"bar">>
    /\ last.result # <<>>
    /\ last.result[1].uri = UriA
    /\ last.result[1].range = RangeOf(Token("bar", 0, 7, 10))

\* C5: a findDefinition for a URI that does not start with file:// returns
\* an empty list and does not search the symbol table.
C5_OtherSchemeNoLookup ==
    (Query /\ ~StartsWith(Request.uri, fileschemeprefix))
        => /\ last.outcome = "returned"
           /\ last.result = <<>>
           /\ ~Has(last.steps, "scan")
           /\ last.node = <<>>

\* un:///p/a is asked for while /p/a is registered, declared in the tree and
\* open in the editor
C5_Witness ==
    /\ Query
    /\ Request.uri = UntitledUri
    /\ Request.tracker = "open"
    /\ currproject # <<>>
    /\ FileIndex(currproject[1], NameA) # 0
    /\ <<"bar", "x">> \in DOMAIN symboltable[1].tree
    /\ last.result = <<>>

\* C6: with a project configured, a findDefinition for a file:// URI that has
\* no buffer tracker, or whose tracker has no parsed buffer, returns an empty
\* list.
C6_NoBufferReturnsEmpty ==
    (/\ Query
     /\ currproject # <<>>
     /\ StartsWith(Request.uri, fileschemeprefix)
     /\ Request.tracker # "open")
        => /\ last.outcome = "returned"
           /\ last.result = <<>>

\* C7: no operation of the handler, in any state, ends in a fault.
C7_NoOperationFaults == last.outcome # "fault"

\* C8: when no token covers the position in the open buffer, findDefinition
\* returns an empty list and does not search the tree.
C8_NoTokenNoSearch ==
    (Query /\ Request.tracker = "open" /\ last.symbol = <<NoText>>)
        => /\ last.outcome = "returned"
           /\ last.result = <<>>
           /\ ~Has(last.steps, "scan")

IsPrefix(p, q) == Len(p) <= Len(q) /\ SubSeq(q, 1, Len(p)) = p

\* p is visited before q when a node is visited before its children and the
\* children in iteration order
PreOrderBefore(p, q) ==
    /\ p # q
    /\ \/ IsPrefix(p, q)
       \/ \E i \in 1..Len(p) :
             /\ i <= Len(q)
             /\ SubSeq(p, 1, i - 1) = SubSeq(q, 1, i - 1)
             /\ Rank(p[i]) < Rank(q[i])

Matches(tree, context, symbol) ==
    {q \in DOMAIN tree : /\ IsPrefix(context, q)
                         /\ tree[q].key # <<>>
                         /\ tree[q].key[1].text = symbol}

\* C9: ScanSymbolTreeForDefinition returns null iff the context is null or no
\* keyed node of the subtree of the context has the symbol as its key, and
\* otherwise the first such node in pre-order, whatever its scope.
C9_ScanIsPreOrderFirstMatch ==
    last.op = "ScanSymbolTreeForDefinition"
        => LET context == Request.context
               symbol  == last.symbol[1]
               tree    == symboltable[1].tree
           IN  IF context = <<>> \/ Matches(tree, context[1], symbol) = {}
               THEN last.node = <<>>
               ELSE /\ last.node # <<>>
                    /\ last.node[1] \in Matches(tree, context[1], symbol)
                    /\ \A q \in Matches(tree, context[1], symbol) \ {last.node[1]} :
                          PreOrderBefore(last.node[1], q)

\* x is a key at the top and inside bar; the scan from the root answers with
\* the deeper node, which comes first in pre-order
C9_Witness ==
    /\ last.op = "ScanSymbolTreeForDefinition"
    /\ Request.context = <<(<<>>)>>
    /\ last.symbol = <<"x">>
    /\ <<"x">> \in DOMAIN symboltable[1].tree
    /\ last.node = << <<"bar", "x">> >>

\* every step of the query succeeds: the URI is a file:// URI of an open
\* document whose file is registered, and some node has the token as its key
AllStepsSucceed ==
    /\ StartsWith(Request.uri, fileschemeprefix)
    /\ Request.tracker = "open"
    /\ currproject # <<>>
    /\ LookupRegisteredFile(currproject[1],
           GetRelativePathToSource(currproject[1], LSPUriToPath(Request.uri))) # <<>>
    /\ last.symbol # <<>>
    /\ Matches(symboltable[1].tree, <<>>, last.symbol[1]) # {}

\* C10: every findDefinition call returns a list, of one location when all
\* steps succeed and empty on any failure.
C10_ZeroOrOneLocation ==
    Query => /\ last.outcome = "returned"
             /\ Len(last.result) = (IF AllStepsSucceed THEN 1 ELSE 0)

\* the calls that return do return one location or none, also for a name
\* that several nodes have as their key
ReturnedZeroOrOne ==
    (Query /\ last.outcome = "returned")
        => Len(last.result) = (IF AllStepsSucceed THEN 1 ELSE 0)

\* directory d is directory dir or one of the directories above it
Ancestor(d, dir) ==
    \/ d = DirRoot
    \/ d = dir
    \/ StartsWith(dir, d \o <<"/">>)

\* no verible.filelist in the directory that current_dir names nor above it
NoListUpFrom(files, current_dir) ==
    \A d \in Dirs : Ancestor(d, DirOf(current_dir)) => ~files[d].exists

Load == last.op = "loadProjectFileList"

\* C11: a loadProjectFileList that starts in a directory with no
\* verible.filelist in it nor in any directory above it, up to the root,
\* returns and leaves the project (its include paths and its registered
\* files), the symbol table, the processed files and the flag as they were.
C11_NoListNoChange ==
    [][ (last'.op = "loadProjectFileList"
            /\ NoListUpFrom(disk, last'.request[1].current_dir))
        => /\ last'.outcome = "returned"
           /\ last'.steps \in {<<>>, <<"not found">>}
           /\ UNCHANGED <<currproject, symboltable, checkedfiles, files_dirty_>>
      ]_vars

\* a search from the root, which holds no list, on a project whose files were
\* loaded from the list of /p and built
C11_Witness ==
    /\ Load
    /\ last.steps = <<"not found">>
    /\ NoListUpFrom(disk, Request.current_dir)
    /\ currproject # <<>>
    /\ Len(currproject[1].files) > 0
    /\ ~EmptyTree(symboltable[1])

\* the directories, among the one that current_dir names and those above it,
\* that hold a verible.filelist and have no such directory below them
NearestList(files, current_dir) ==
    {d \in Dirs :
        /\ Ancestor(d, DirOf(current_dir))
        /\ files[d].exists
        /\ \A e \in Dirs :
              (Ancestor(e, DirOf(current_dir)) /\ files[e].exists)
                  => Len(e) <= Len(d)}

\* C12: when the verible.filelist that the search discovers fails to parse,
\* loadProjectFileList adds nothing: no include path is registered, no file
\* is opened, and the symbol table is unchanged.
C12_ParseFailureAddsNothing ==
    [][ (/\ last'.op = "loadProjectFileList"
         /\ \E d \in NearestList(disk, last'.request[1].current_dir) :
               ~disk[d].ok)
        => /\ last'.outcome = "returned"
           /\ last'.steps \in {<<>>, <<"failed to parse">>}
           /\ UNCHANGED <<currproject, symboltable, checkedfiles, files_dirty_>>
      ]_vars

\* the malformed list of /p/s, which names an include directory and a file
\* before its error, met by a project loaded from the list of /p
C12_Witness ==
    /\ Load
    /\ last.steps = <<"failed to parse">>
    /\ NearestList(disk, Request.current_dir) = {DirS}
    /\ disk[DirS].include_dirs # <<>>
    /\ disk[DirS].file_paths # <<>>
    /\ currproject # <<>>
    /\ Len(currproject[1].files) > 0
    /\ ~EmptyTree(symboltable[1])

\* the list that the last loadProjectFileList read
ListUsed == disk[DirOf(last.checked[Len(last.checked)])]

\* the file of that name is found under an include path of the project
Opens(project, name) ==
    \E i \in 1..Len(project.include_paths) :
        JoinPath(project.include_paths[i], name) \in DOMAIN DiskFiles

\* the file is registered and was parsed, and every name it declares has a
\* node in the tree under its scope
BuiltInto(table, project, name) ==
    /\ FileIndex(project, name) # 0
    /\ LET path == ResolvedPath(project, name)
       IN  /\ project.files[FileIndex(project, name)].parsed
                  = DiskFiles[path].parseable
           /\ \A k \in 1..Len(DiskFiles[path].decls) :
                 Append(DiskFiles[path].decls[k].scope,
                        DiskFiles[path].tokens[DiskFiles[path].decls[k].tok].text)
                     \in DOMAIN table.tree

\* C13: when a listed file cannot be opened, loadProjectFileList skips that
\* file only: every other listed file that opens, before and after it in the
\* order of the list, is built into the symbol table, and the include paths
\* of the list stay registered.
C13_SkipsOnlyTheMissingFile ==
    (Load /\ last.steps = <<"loaded">>)
        => /\ \A i \in 1..Len(ListUsed.include_dirs) :
                 \E j \in 1..Len(currproject[1].include_paths) :
                    currproject[1].include_paths[j] = ListUsed.include_dirs[i]
           /\ \A k \in 1..Len(ListUsed.file_paths) :
                 IF Opens(currproject[1], ListUsed.file_paths[k])
                 THEN BuiltInto(symboltable[1], currproject[1],
                                ListUsed.file_paths[k])
                 ELSE FileIndex(currproject[1], ListUsed.file_paths[k]) = 0

\* the list a, d, b, c of /p, where d is missing: a before it and b after it
\* are in the tree, c after it is registered, and d is not
C13_Witness ==
    /\ Load
    /\ last.steps = <<"loaded">>
    /\ ListUsed.file_paths = <<NameA, NameD, NameB, NameC>>
    /\ ~Opens(currproject[1], NameD)
    /\ FileIndex(currproject[1], NameD) = 0
    /\ <<"bar", "x">> \in DOMAIN symboltable[1].tree
    /\ <<"top", "u">> \in DOMAIN symboltable[1].tree
    /\ FileIndex(currproject[1], NameC) # 0
    /\ \E j \in 1..Len(currproject[1].include_paths) :
          currproject[1].include_paths[j] = DirP

\* the node that Build makes of declaration k of the registered file i
DeclaredNode(project, i, k) ==
    LET content == DiskFiles[project.files[i].path]
    IN  [key |-> <<KeyView(project.files[i].path,
                           content.tokens[content.decls[k].tok])>>,
         file_origin |-> <<[project |-> project.id,
                            name |-> project.files[i].name]>>]

DeclaredPath(project, i, k) ==
    LET content == DiskFiles[project.files[i].path]
    IN  Append(content.decls[k].scope, content.tokens[content.decls[k].tok].text)

\* the declarations of the registered files that parse
Declarations(project) ==
    UNION { { <<i, k>> :
                k \in 1..Len(DiskFiles[project.files[i].path].decls) } :
            i \in {j \in 1..Len(project.files) :
                      DiskFiles[project.files[j].path].parseable} }

\* the tree holds the root and one node for each declaration of the
\* registered files, and nothing else
TreeOfFileSet(table, project) ==
    /\ table.tree[<<>>] = RootNode
    /\ \A ik \in Declarations(project) :
          /\ DeclaredPath(project, ik[1], ik[2]) \in DOMAIN table.tree
          /\ table.tree[DeclaredPath(project, ik[1], ik[2])]
                = DeclaredNode(project, ik[1], ik[2])
    /\ \A path \in DOMAIN table.tree \ {<<>>} :
          \E ik \in Declarations(project) :
             path = DeclaredPath(project, ik[1], ik[2])

\* C14: resetSymbolTable gives a tree that holds the root only, bound to the
\* current project, and an empty set of processed files; a second reset
\* changes nothing; and the tree that a Build after the reset gives is that
\* of the registered files, whatever the tree held before the reset.
C14_ResetIsIdempotent ==
    /\ last.op = "resetSymbolTable"
          => /\ EmptyTree(symboltable[1])
             /\ symboltable[1].tree[<<>>] = RootNode
             /\ symboltable[1].project = ProjectPtr(Handler)
             /\ checkedfiles = {}
    /\ resetSymbolTable(resetSymbolTable(Handler)) = resetSymbolTable(Handler)
    /\ Has(last.steps, "Build")
          => TreeOfFileSet(symboltable[1], currproject[1])

\* a rebuild of a project with a and b registered: the tree holds bar, bar.x,
\* top, top.u, top.x and the root
C14_Witness ==
    /\ last.op = "buildProjectSymbolTable"
    /\ last.steps = <<"reset", "Build", "Resolve">>
    /\ FileIndex(currproject[1], NameA) # 0
    /\ FileIndex(currproject[1], NameB) # 0
    /\ Cardinality(DOMAIN symboltable[1].tree) = 6
    /\ TreeOfFileSet(symboltable[1], currproject[1])

\* the text differs from file:// at one of its first seven places
OtherScheme(uri) ==
    \E i \in 1..Len(fileschemeprefix) :
        i > Len(uri) \/ uri[i] # fileschemeprefix[i]

IsAbsolute(path) == path # <<>> /\ path[1] = "/"

\* C15: an absolute path P comes back from LSPUriToPath(PathToLSPUri(P)) as
\* P, the URI being file:// followed by P; and LSPUriToPath gives the empty
\* string for every URI that does not begin with file://.
C15_RoundTrip ==
    /\ (last.op = "PathToLSPUri" /\ IsAbsolute(Request.text))
          => /\ last.result[1].path = Request.text
             /\ last.result[1].uri = fileschemeprefix \o Request.text
    /\ (last.op = "LSPUriToPath" /\ OtherScheme(Request.text))
          => last.result[1].path = <<>>

\* /a/.. to file:///a/.. and back
C15_Witness ==
    /\ last.op = "PathToLSPUri"
    /\ Request.text = <<"/", "a", "/", ".">>
    /\ last.result[1].uri = fileschemeprefix \o <<"/", "a", "/", ".">>
    /\ last.result[1].path = <<"/", "a", "/", ".">>

\* the file record that a node's file_origin points to is one of project
RecordOf(project, file_origin) ==
    /\ project # <<>>
    /\ file_origin[1].project = project[1].id
    /\ FileIndex(project[1], file_origin[1].name) # 0

\* C16: after every operation the symbol table is bound to the current
\* project and the file_origin of every node is a file record of that
\* project; a query never reads a record of a replaced project, and the
\* location it returns is in a file of the current project.
C16_TableOfCurrentProject ==
    /\ symboltable # <<>>
          => /\ symboltable[1].project = ProjectPtr(Handler)
             /\ \A path \in DOMAIN symboltable[1].tree :
                   \/ symboltable[1].tree[path].file_origin = <<>>
                   \/ RecordOf(currproject, symboltable[1].tree[path].file_origin)
    /\ last.outcome # "stale"
    /\ (Query /\ last.result # <<>>)
          => \E i \in 1..Len(currproject[1].files) :
                last.result[1].uri = PathToLSPUri(currproject[1].files[i].path)

\* a query answered from a file of the second project, which replaced a first
C16_Witness ==
    /\ Query
    /\ last.result # <<>>
    /\ nprojects = 2
    /\ currproject[1].id = 2
    /\ last.node # <<>>
    /\ symboltable[1].tree[last.node[1]].file_origin
          = <<[project |-> 2, name |-> NameA]>>

\* C17: in every state where the dirty flag is clear the symbol table is what
\* a full Build and Resolve pass over the registered files of the current
\* project gives: no operation changes the project, its files or the tree
\* after that pass and leaves the flag clear.
C17_CleanMeansFresh ==
    ~files_dirty_
        => /\ currproject # <<>>
           /\ symboltable[1].project = ProjectPtr(Handler)
           /\ TreeOfFileSet(symboltable[1], currproject[1])
           /\ ResolvedAgainst(symboltable[1], currproject[1])

\* the directories that the last loadProjectFileList looked into, in order
CheckedDirs == [i \in 1..Len(last.checked) |-> DirOf(last.checked[i])]

\* directory d is the one right above directory e
ParentDir(d, e) ==
    /\ d # e
    /\ Ancestor(d, e)
    /\ \A m \in Dirs : (Ancestor(m, e) /\ Ancestor(d, m)) => m \in {d, e}

\* the directories looked into are that of current_dir, the one above it and
\* so on, each once, up to the nearest that holds a list, which is the list
\* used, or up to the root when none holds one
NearestUpToRoot(current_dir) ==
    /\ Len(last.checked) >= 1
    /\ CheckedDirs[1] = DirOf(current_dir)
    /\ \A i \in 1..(Len(last.checked) - 1) :
          ParentDir(CheckedDirs[i + 1], CheckedDirs[i])
    /\ \A i, j \in 1..Len(last.checked) :
          i # j => CheckedDirs[i] # CheckedDirs[j]
    /\ IF NearestList(disk, current_dir) = {}
       THEN /\ CheckedDirs[Len(last.checked)] = DirRoot
            /\ last.steps = <<"not found">>
       ELSE /\ CheckedDirs[Len(last.checked)] \in NearestList(disk, current_dir)
            /\ last.steps # <<"not found">>

\* C18: for every start directory the search looks into startDir, its
\* parent, and so on up to the root, into each at most once, and uses the
\* list of the nearest directory that holds one.
C18_NearestForEveryStart ==
    (Load /\ currproject # <<>>) => NearestUpToRoot(Request.current_dir)

\* an absolute path that does not end with a separator, or the root
PlainAbsolute(path) ==
    /\ IsAbsolute(path)
    /\ path = DirRoot \/ path[Len(path)] # "/"

\* what the search does for every start directory: the walk ends, each path
\* it looks into is shorter than the one before, and the list used is that
\* of the first directory of the walk that holds one; and for a start
\* directory given as an absolute path without a trailing separator the
\* walk is startDir, its parent, and so on up to the root, each directory
\* once, and the list used is that of the nearest directory that holds one
NearestFromAbsoluteStart ==
    (Load /\ currproject # <<>>)
        => /\ Len(last.checked) >= 1
           /\ last.checked[1] = Request.current_dir
           /\ \A i \in 1..(Len(last.checked) - 1) :
                 /\ Len(last.checked[i + 1]) < Len(last.checked[i])
                 /\ ~disk[CheckedDirs[i]].exists
           /\ (last.steps = <<"not found">>)
                 <=> ~disk[CheckedDirs[Len(last.checked)]].exists
           /\ PlainAbsolute(Request.current_dir)
                 => NearestUpToRoot(Request.current_dir)

\* a search from /p/s, which holds a list, as /p above it does: the list of
\* /p/s is read (b is registered) and that of /p is not (a is not)
NearerListUsed ==
    /\ Load
    /\ currproject # <<>>
    /\ Request.current_dir = DirS
    /\ disk[DirS].exists
    /\ disk[DirP].exists
    /\ last.checked = <<DirS>>
    /\ last.steps = <<"loaded">>
    /\ FileIndex(currproject[1], NameB) # 0
    /\ FileIndex(currproject[1], NameA) = 0

\* C19: a findDefinition on a handler whose dirty flag is clear, whether it
\* finds a location or not, leaves the project, the symbol table, the
\* processed files and the flag as they were, and goes through no rebuild; a
\* query changes the handler only by the rebuild that a set flag triggers.
C19_QueryReadsOnly ==
    [][ last'.op = "findDefinition"
        => IF ~files_dirty_
           THEN /\ UNCHANGED <<currproject, symboltable, checkedfiles,
                               files_dirty_>>
                /\ ~Has(last'.steps, "reset")
                /\ ~Has(last'.steps, "Build")
           ELSE Handler' = buildProjectSymbolTable(Handler).h
      ]_vars

\* a query answered with a location on a clean handler whose table is not
\* what a rebuild would give (files were loaded after the last full pass)
C19_Witness ==
    /\ Query
    /\ ~files_dirty_
    /\ last.result # <<>>
    /\ ~Has(last.steps, "Build")
    /\ symboltable[1] # buildProjectSymbolTable(Handler).h.symboltable[1]

====
